---- MODULE Spec2Model ----
(***************************************************************************)
(* Model of app/services/transcription_service.py: TranscriptionService,   *)
(* its Chroma collection, the uploads directory, the Whisper model cache   *)
(* and the create / get / update / delete operations, one action per       *)
(* external call of each operation.                                        *)
(***************************************************************************)
EXTENDS Integers, Sequences, FiniteSets, TLC

\* ------------------------------------------------------------------ bounds
\* number of uuid4 values create_transcript may draw in one behaviour
MaxIds == 2
\* number of distinct non-empty texts the Whisper model may return
NumTexts == 2
\* number of call slots; Spec runs the calls of one caller one after the other
\* in slot 1, SpecConcurrent runs two callers in slots 1 and 2, the other slots
\* stay idle
NumCalls == 2
\* largest limit and offset a list request passes
MaxPage == 2
\* number of times whisper.load_model may return a model of one size
MaxLoads == 2

\* ------------------------------------------------------------- value sets
ModelSize == {"tiny", "base", "small", "medium", "large"}
\* the sizes the requests use, those of the tests: the code only compares a size
\* with the stored one and looks it up in the cache
Sizes == {"tiny", "base"}
Calls == 1..NumCalls
Ids == 1..MaxIds
\* an id no create ever generated ("nonexistent_id" of the tests)
NonexistentId == MaxIds + 1
Filenames == {"clip.mp4"}
\* what the bytes of a file are: decodable media, or bytes ffmpeg rejects (a
\* fake video, a truncated copy)
Contents == {"media", "junk"}
\* a text is a sequence of tokens; the empty sequence is Python's ""
Texts == {<< >>} \cup {<<k>> : k \in 1..NumTexts}
\* Python's None as a transcript / as a transcript id
None == <<0>>
NoId == 0

\* str(e) of an exception a step raised: what the except clauses print
ErrorTexts == {"[Errno 28] No space left on device", "Connection refused"}
NoError == "none"

NotFoundMsg == "Transcript not found"
SameSizeMsg == "Model size is already the same"
TranscriptionErrorMsg == "Failed to update transcript due to transcription error"
UpdatedMsg == "Transcript updated successfully"

VARIABLES
    collection,   \* the Chroma collection "transcripts": records in the store's order
    uploads,      \* the uploads directory: the files, each a path and the kind of its bytes
    model_cache,  \* self._model_cache: per size the loaded Whisper model, or NoModel
    loads,        \* per size, how many times whisper.load_model returned a model
    provenance,   \* per id, the pipeline run (text, size of the model) last stored
    next_uuid,    \* the next value uuid.uuid4() returns
    tmpdirs,      \* the calls whose tempfile.TemporaryDirectory exists
    call          \* per call: position (pc) and the local variables of the method

vars == <<collection, uploads, model_cache, loads, provenance, next_uuid, tmpdirs, call>>

\* --------------------------------------------------------- pure functions
\* f"{transcript_id}_{file.filename}" under upload_dir
FilePath(transcript_id, filename) == <<transcript_id, filename>>

\* OllamaEmbeddings.embed_query: a fixed-size vector computed from the text
embed_query(text) == <<Len(text), IF Len(text) = 0 THEN 0 ELSE text[1]>>

\* Python truthiness of a transcript: None and "" are falsy
Falsy(transcript) == transcript = None \/ Len(transcript) = 0

\* mutant: the metadata carry the default size instead of the one used
Record_DefaultSize(transcript_id, transcript, embedding, video_path, model_size) ==
    [id |-> transcript_id, document |-> transcript, embedding |-> embedding,
     metadata |-> [video_path |-> video_path, model_size |-> "base"]]

\* the record collection.upsert is given: ids, documents, embeddings, metadatas
Record(transcript_id, transcript, embedding, video_path, model_size) ==
    [id |-> transcript_id, document |-> transcript, embedding |-> embedding,
     metadata |-> [video_path |-> video_path, model_size |-> model_size]]

StoredIds(coll) == {coll[i].id : i \in 1..Len(coll)}

IndexOf(coll, transcript_id) == CHOOSE i \in 1..Len(coll) : coll[i].id = transcript_id

\* mutant: the upsert rewrites document and metadata of an existing record and
\* keeps its embedding
CollectionUpsert_KeepEmbedding(coll, rec) ==
    IF rec.id \in StoredIds(coll)
    THEN [coll EXCEPT ![IndexOf(coll, rec.id)] =
             [rec EXCEPT !.embedding = coll[IndexOf(coll, rec.id)].embedding]]
    ELSE Append(coll, rec)

\* mutant: collection.add, the record is appended whatever the id
CollectionUpsert_Add(coll, rec) == Append(coll, rec)

\* collection.upsert: replace the record at the id in place, or append it
CollectionUpsert(coll, rec) ==
    IF rec.id \in StoredIds(coll)
    THEN [coll EXCEPT ![IndexOf(coll, rec.id)] = rec]
    ELSE Append(coll, rec)

\* mutant: the filter is inverted, every other record is dropped
CollectionDelete_Others(coll, transcript_id) ==
    SelectSeq(coll, LAMBDA r : r.id = transcript_id)

\* collection.delete(ids=[id]): drop the record, keep the others in order
CollectionDelete(coll, transcript_id) ==
    SelectSeq(coll, LAMBDA r : r.id # transcript_id)

\* get_transcript: None when the id is absent, else id, document and metadata
NoTranscript == [transcript_id |-> NoId]
get_transcript(coll, transcript_id) ==
    IF transcript_id \notin StoredIds(coll)
    THEN NoTranscript
    ELSE LET r == coll[IndexOf(coll, transcript_id)]
         IN  [transcript_id |-> r.id, transcript |-> r.document, metadata |-> r.metadata]

\* the dict get_transcript and list_transcripts build for a stored record
TranscriptDict(r) ==
    [transcript_id |-> r.id, transcript |-> r.document, metadata |-> r.metadata]

Min(a, b) == IF a <= b THEN a ELSE b

\* mutant: the offset is not passed on, every page starts at the first record
list_transcripts_NoOffset(coll, limit, offset) ==
    [i \in 1..Min(limit, Len(coll)) |-> TranscriptDict(coll[i])]

\* list_transcripts: collection.get(limit=limit, offset=offset) returns, in
\* the store's order, the records after the first `offset`, at most `limit`
list_transcripts(coll, limit, offset) ==
    [i \in 1..Min(limit, Len(coll) - offset) |-> TranscriptDict(coll[offset + i])]

\* a Whisper model: its size and which load of that size made it
Model(size, load) == [size |-> size, load |-> load]
\* no model: the key is absent from the cache / the local is not bound yet
NoModel == Model("none", 0)
\* mutant: the cache is never consulted, every request loads
Cached_Never(cache, model_size) == FALSE

\* `model_size not in self._model_cache` is false
Cached(cache, model_size) == cache[model_size] # NoModel

\* what model.transcribe made: a text, and the size of the model that made it
Run_(text, size) == [text |-> text, size |-> size]
NoRun == Run_(None, "none")

\* the uploads directory
File(path, bytes) == [path |-> path, bytes |-> bytes]
Exists(dir, path) == \E f \in dir : f.path = path
\* file_path.unlink()
Unlink(dir, path) == {f \in dir : f.path # path}
\* file_path.open("wb") followed by the copy: the file holds the new bytes
WriteFile(dir, path, bytes) == Unlink(dir, path) \cup {File(path, bytes)}
\* ffmpeg can decode the file at the path
Decodable(dir, path) == File(path, "media") \in dir

\* mutant: the temporary directory outlives the with block
LeaveTemporaryDirectory_Keep(dirs, c) == dirs

\* the end of `with tempfile.TemporaryDirectory()`, by return, by exception or
\* by falling out of the block: the directory of call c and the audio file in
\* it are removed
LeaveTemporaryDirectory(dirs, c) == dirs \ {c}

\* mutant: no rollback of the upload
RollbackUpload_Never(dir, path, transcript) == dir

\* `if not transcript`: the upload is unlinked when it exists
RollbackUpload(dir, path, transcript) ==
    IF Falsy(transcript) /\ Exists(dir, path) THEN Unlink(dir, path) ELSE dir

\* mutant: None is embedded like a text
EmbedAccepts_None(transcript) == TRUE

\* embed_query raises on None (the Ollama client rejects an input that is no
\* string); on a string it answers unless the service fails
EmbedAccepts(transcript) == transcript # None

\* update_transcript's two checks on the record it looked up: the early result,
\* or Proceed when the pipeline is to run
Proceed == [success |-> TRUE, message |-> "proceed"]
\* mutant: a missing record is reported with the message of the other check
UpdateCheck_OneMessage(existing, model_size) ==
    IF existing = NoTranscript \/ existing.metadata.model_size = model_size
    THEN [success |-> FALSE, message |-> SameSizeMsg]
    ELSE Proceed

\* mutant: the model size is not compared with the stored one
UpdateCheck_NoSizeCheck(existing, model_size) ==
    IF existing = NoTranscript
    THEN [success |-> FALSE, message |-> NotFoundMsg]
    ELSE Proceed

UpdateCheck(existing, model_size) ==
    IF existing = NoTranscript
    THEN [success |-> FALSE, message |-> NotFoundMsg]
    ELSE IF existing.metadata.model_size = model_size
    THEN [success |-> FALSE, message |-> SameSizeMsg]
    ELSE Proceed

\* delete_transcript's check on the record it looked up
DeleteCheck(existing) == existing # NoTranscript

\* the dict create_transcript returns when the pipeline returned `transcript`
CreateResult(transcript_id, video_path, transcript, model_size) ==
    IF Falsy(transcript)
    THEN [success |-> FALSE, video_path |-> video_path, transcript |-> None,
          transcript_id |-> NoId, model_size |-> model_size]
    ELSE [success |-> TRUE, video_path |-> video_path, transcript |-> transcript,
          transcript_id |-> transcript_id, model_size |-> model_size]

\* the dict update_transcript returns when the pipeline returned `transcript`
UpdateResult(transcript_id, transcript, model_size) ==
    IF transcript = None
    THEN [success |-> FALSE, message |-> TranscriptionErrorMsg]
    ELSE [success |-> TRUE, message |-> UpdatedMsg,
          transcript_id |-> transcript_id, new_model_size |-> model_size]

\* mutant: the failure result carries the text of the exception
Report_ErrorText(result, error) ==
    IF result.success \/ error = NoError THEN result
    ELSE [success |-> FALSE, message |-> error]

\* what leaves the service when the call's last exception had text `error`: the
\* except clauses print the text and return None or False, the result dicts are
\* built without it
Report(result, error) == result

\* ----------------------------------------------------- the update endpoint
\* raise HTTPException(status_code, detail)
HTTPException(status_code, detail) ==
    [raised |-> TRUE, status_code |-> status_code, detail |-> detail]
\* a handler that returns: FastAPI answers 200 with the value as body
Response(body) == [raised |-> FALSE, status_code |-> 200, body |-> body]
NoResponse == [raised |-> FALSE, status_code |-> 0]

\* the try block of the endpoint, given the dict the service returned
UpdateTry(result) ==
    IF ~result.success
    THEN IF result.message = "Transcript not found"
         THEN HTTPException(404, "Transcript not found")
         ELSE IF result.message = "Model size is already the same"
         THEN Response(result)
         ELSE HTTPException(500, "Failed to update transcript")
    ELSE Response(result)

\* mutant: the except clause answers every HTTPException with a 500
UpdateExcept_All500(outcome) ==
    IF outcome.raised THEN HTTPException(500, "Failed to update transcript") ELSE outcome

\* `except HTTPException as e`: a 404 is raised again, anything else becomes
\* the generic 500
UpdateExcept(outcome) ==
    IF outcome.raised
    THEN IF outcome.status_code = 404
         THEN outcome
         ELSE HTTPException(500, "Failed to update transcript")
    ELSE outcome

\* the PUT /transcription/{transcript_id} handler around the service call
update_transcript(result) == UpdateExcept(UpdateTry(result))

\* ------------------------------------------------------------------ calls
IdleCall ==
    [pc |-> "idle", op |-> "none", transcript_id |-> NoId, video_path |-> <<>>,
     model_size |-> "none", file |-> "none", transcript |-> None, embedding |-> <<>>,
     model |-> NoModel, produced |-> NoRun, error |-> NoError,
     response |-> NoResponse,
     limit |-> 0, offset |-> 0,
     steps |-> <<>>, pre |-> <<>>, pre_uploads |-> {}, result |-> [success |-> FALSE]]

Step(name, ok) == [step |-> name, ok |-> ok]

\* call slot c can begin a method of the service: nothing was called yet, the
\* last call returned, or the router just handed a service to the handler
Free(c) == call[c].pc \in {"idle", "done", "routed"}

Init ==
    /\ collection = <<>>
    /\ uploads = {}
    /\ model_cache = [s \in Sizes |-> NoModel]
    /\ loads = [s \in Sizes |-> 0]
    /\ provenance = [i \in Ids |-> NoRun]
    /\ next_uuid = 1
    /\ tmpdirs = {}
    /\ call = [c \in Calls |-> IdleCall]

\* mutant: the store write does not wait for the embedding
Ran_UpsertFirst(c, name, ok, next) ==
    [call[c] EXCEPT !.pc = IF next = "embed" THEN "upsert" ELSE next,
                    !.steps = Append(@, Step(name, ok))]

\* the call record after an except clause caught an exception with text e
Raised(rec, e) == [rec EXCEPT !.error = e]

\* the position and locals of call c after it ran step `name` with outcome ok
Ran(c, name, ok, next) ==
    [call[c] EXCEPT !.pc = next, !.steps = Append(@, Step(name, ok))]

\* ------------------------------------------------------ create_transcript
\* uuid4, the unique filename and the target path
CreateBegin(c, filename, bytes, model_size) ==
    /\ Free(c)
    /\ next_uuid <= MaxIds
    /\ next_uuid' = next_uuid + 1
    /\ call' = [call EXCEPT ![c] =
                  [IdleCall EXCEPT !.pc = "save", !.op = "create",
                                   !.transcript_id = next_uuid,
                                   !.video_path = FilePath(next_uuid, filename),
                                   !.model_size = model_size, !.file = bytes,
                                   !.pre = collection, !.pre_uploads = uploads]]
    /\ UNCHANGED <<collection, uploads, model_cache, loads, provenance, tmpdirs>>

\* file_path.open("wb") and shutil.copyfileobj succeed
SaveFile(c) ==
    /\ call[c].pc = "save"
    /\ uploads' = WriteFile(uploads, call[c].video_path, call[c].file)
    /\ call' = [call EXCEPT ![c] = Ran(c, "save", TRUE, "get_model")]
    /\ UNCHANGED <<collection, model_cache, loads, provenance, next_uuid, tmpdirs>>

\* they raise: open() failed (no file), or the copy failed (a truncated file is
\* left behind, nothing removes it); create returns its failure dict
SaveFileFails(c) ==
    /\ call[c].pc = "save"
    /\ \/ uploads' = uploads
       \/ uploads' = WriteFile(uploads, call[c].video_path, "junk")
    /\ \E e \in ErrorTexts :
          call' = [call EXCEPT ![c] =
                     [Raised(Ran(c, "save", FALSE, "done"), e) EXCEPT
                         !.result = Report(CreateResult(call[c].transcript_id,
                                                        call[c].video_path, None,
                                                        call[c].model_size), e)]]
    /\ UNCHANGED <<collection, model_cache, loads, provenance, next_uuid, tmpdirs>>

\* -------------------- __extract_and_transcribe_audio_and_save_transcript
\* __get_model: the size is in the cache, the cached model is returned
GetModel(c) ==
    /\ call[c].pc = "get_model"
    /\ Cached(model_cache, call[c].model_size)
    /\ call' = [call EXCEPT ![c] =
                  [Ran(c, "get_model", TRUE, "extract") EXCEPT
                      !.model = model_cache[call[c].model_size]]]
    /\ UNCHANGED <<collection, uploads, model_cache, loads, provenance, next_uuid, tmpdirs>>

\* __get_model: the size is not in the cache, whisper.load_model is called
GetModelMiss(c) ==
    /\ call[c].pc = "get_model"
    /\ ~Cached(model_cache, call[c].model_size)
    /\ call' = [call EXCEPT ![c].pc = "load_model"]
    /\ UNCHANGED <<collection, uploads, model_cache, loads, provenance, next_uuid, tmpdirs>>

\* mutant: the loaded model is returned and not put in the cache
LoadModel_NoCache(c) ==
    /\ call[c].pc = "load_model"
    /\ loads[call[c].model_size] < MaxLoads
    /\ LET model == Model(call[c].model_size, loads[call[c].model_size] + 1)
       IN  /\ loads' = [loads EXCEPT ![call[c].model_size] = model.load]
           /\ call' = [call EXCEPT ![c] = Ran(c, "load_model", TRUE, "return_model")]
    /\ UNCHANGED <<collection, uploads, model_cache, provenance, next_uuid, tmpdirs>>

\* whisper.load_model returns and the handle is put in the cache, over the one
\* another call may have put there since this call looked
LoadModel(c) ==
    /\ call[c].pc = "load_model"
    /\ loads[call[c].model_size] < MaxLoads
    /\ LET model == Model(call[c].model_size, loads[call[c].model_size] + 1)
       IN  /\ loads' = [loads EXCEPT ![call[c].model_size] = model.load]
           /\ model_cache' = [model_cache EXCEPT ![call[c].model_size] = model]
           /\ call' = [call EXCEPT ![c] = Ran(c, "load_model", TRUE, "return_model")]
    /\ UNCHANGED <<collection, uploads, provenance, next_uuid, tmpdirs>>

\* `return self._model_cache[model_size]` after the load: the handle the cache
\* holds now
ReturnModel(c) ==
    /\ call[c].pc = "return_model"
    /\ call' = [call EXCEPT ![c].pc = "extract",
                            ![c].model = model_cache[call[c].model_size]]
    /\ UNCHANGED <<collection, uploads, model_cache, loads, provenance, next_uuid, tmpdirs>>

\* whisper.load_model raises: the pipeline's except returns None
LoadModelFails(c) ==
    /\ call[c].pc = "load_model"
    /\ \E e \in ErrorTexts :
          call' = [call EXCEPT ![c] = Raised(Ran(c, "load_model", FALSE, "ret"), e)]
    /\ UNCHANGED <<collection, uploads, model_cache, loads, provenance, next_uuid, tmpdirs>>

\* the temporary directory is created and __extract_audio returns True
ExtractAudio(c) ==
    /\ call[c].pc = "extract"
    /\ Decodable(uploads, call[c].video_path)
    /\ tmpdirs' = tmpdirs \cup {c}
    /\ call' = [call EXCEPT ![c] = Ran(c, "extract", TRUE, "transcribe")]
    /\ UNCHANGED <<collection, uploads, model_cache, loads, provenance, next_uuid>>

\* __extract_audio returns False (ffmpeg.Error: missing or undecodable input, or
\* the tool failed): the pipeline returns None from inside the with block, which
\* removes the temporary directory it created
ExtractAudioFails(c) ==
    /\ call[c].pc = "extract"
    /\ tmpdirs' = LeaveTemporaryDirectory(tmpdirs \cup {c}, c)
    /\ \E e \in ErrorTexts :
          call' = [call EXCEPT ![c] = Raised(Ran(c, "extract", FALSE, "ret"), e)]
    /\ UNCHANGED <<collection, uploads, model_cache, loads, provenance, next_uuid>>

\* __transcribe_audio: the text of the model, or None when model.transcribe raised
TranscribeAudio(c) ==
    /\ call[c].pc = "transcribe"
    /\ \E text \in Texts \cup {None}, e \in ErrorTexts \cup {NoError} :
          /\ (text = None) <=> (e # NoError)
          /\ call' = [call EXCEPT ![c] =
                        [Ran(c, "transcribe", text # None, "embed") EXCEPT
                            !.transcript = text,
                            !.produced = Run_(text, call[c].model.size),
                            !.error = IF e = NoError THEN @ ELSE e]]
    /\ UNCHANGED <<collection, uploads, model_cache, loads, provenance, next_uuid, tmpdirs>>

\* __upsert_transcript is called whatever the transcript is; embed_query returns
EmbedQuery(c) ==
    /\ call[c].pc = "embed"
    /\ EmbedAccepts(call[c].transcript)
    /\ call' = [call EXCEPT ![c] =
                  [Ran(c, "embed", TRUE, "upsert") EXCEPT
                      !.embedding = embed_query(call[c].transcript)]]
    /\ UNCHANGED <<collection, uploads, model_cache, loads, provenance, next_uuid, tmpdirs>>

\* embed_query raises (always for None, else when the service fails):
\* __upsert_transcript returns False, which the pipeline ignores
EmbedQueryFails(c) ==
    /\ call[c].pc = "embed"
    /\ tmpdirs' = LeaveTemporaryDirectory(tmpdirs, c)
    /\ \E e \in ErrorTexts :
          call' = [call EXCEPT ![c] = Raised(Ran(c, "embed", FALSE, "ret"), e)]
    /\ UNCHANGED <<collection, uploads, model_cache, loads, provenance, next_uuid>>

\* collection.upsert stores the record; the pipeline returns the transcript
Upsert(c) ==
    /\ call[c].pc = "upsert"
    /\ collection' = CollectionUpsert(collection,
                        Record(call[c].transcript_id, call[c].transcript,
                               call[c].embedding, call[c].video_path, call[c].model_size))
    /\ provenance' = [provenance EXCEPT ![call[c].transcript_id] = call[c].produced]
    /\ tmpdirs' = LeaveTemporaryDirectory(tmpdirs, c)
    /\ call' = [call EXCEPT ![c] = Ran(c, "upsert", TRUE, "ret")]
    /\ UNCHANGED <<uploads, model_cache, loads, next_uuid>>

\* collection.upsert raises: __upsert_transcript returns False, which is ignored
UpsertFails(c) ==
    /\ call[c].pc = "upsert"
    /\ tmpdirs' = LeaveTemporaryDirectory(tmpdirs, c)
    /\ \E e \in ErrorTexts :
          call' = [call EXCEPT ![c] = Raised(Ran(c, "upsert", FALSE, "ret"), e)]
    /\ UNCHANGED <<collection, uploads, model_cache, loads, provenance, next_uuid>>

\* create_transcript after the pipeline: `if not transcript` unlinks the upload
CreateReturn(c) ==
    /\ call[c].pc = "ret"
    /\ call[c].op = "create"
    /\ uploads' = RollbackUpload(uploads, call[c].video_path, call[c].transcript)
    /\ call' = [call EXCEPT ![c].pc = "done",
                            ![c].result = Report(CreateResult(call[c].transcript_id,
                                                    call[c].video_path,
                                                    call[c].transcript,
                                                    call[c].model_size),
                                                 call[c].error)]
    /\ UNCHANGED <<collection, model_cache, loads, provenance, next_uuid, tmpdirs>>

\* ------------------------------------------------------ update_transcript
\* the lookup and the two early returns
UpdateBegin(c, transcript_id, model_size) ==
    /\ Free(c)
    /\ LET existing == get_transcript(collection, transcript_id)
           begun == [IdleCall EXCEPT !.op = "update", !.transcript_id = transcript_id,
                                     !.model_size = model_size,
                                     !.steps = <<Step("get", TRUE)>>,
                                     !.pre = collection, !.pre_uploads = uploads]
           early == UpdateCheck(existing, model_size)
       IN  call' = [call EXCEPT ![c] =
                IF early # Proceed
                THEN [begun EXCEPT !.pc = "done", !.result = early,
                                   !.response = update_transcript(early)]
                ELSE [begun EXCEPT !.pc = "get_model",
                                   !.video_path = existing.metadata.video_path]]
    /\ UNCHANGED <<collection, uploads, model_cache, loads, provenance, next_uuid, tmpdirs>>

\* update_transcript after the pipeline: `if transcript is None`
UpdateReturn(c) ==
    /\ call[c].pc = "ret"
    /\ call[c].op = "update"
    /\ LET result == Report(UpdateResult(call[c].transcript_id, call[c].transcript,
                                         call[c].model_size),
                            call[c].error)
       IN  call' = [call EXCEPT ![c].pc = "done",
                                ![c].result = result,
                                ![c].response = update_transcript(result)]
    /\ UNCHANGED <<collection, uploads, model_cache, loads, provenance, next_uuid, tmpdirs>>

\* ------------------------------------------------------ delete_transcript
\* the lookup; False when there is no record
DeleteBegin(c, transcript_id) ==
    /\ Free(c)
    /\ LET existing == get_transcript(collection, transcript_id)
           begun == [IdleCall EXCEPT !.op = "delete", !.transcript_id = transcript_id,
                                     !.steps = <<Step("get", TRUE)>>,
                                     !.pre = collection, !.pre_uploads = uploads]
       IN  call' = [call EXCEPT ![c] =
                IF DeleteCheck(existing)
                THEN [begun EXCEPT !.pc = "delete"]
                ELSE [begun EXCEPT !.pc = "done", !.result = FALSE]]
    /\ UNCHANGED <<collection, uploads, model_cache, loads, provenance, next_uuid, tmpdirs>>

\* mutant: the delete also unlinks the video file of the record
Delete_WithVideo(c) ==
    /\ call[c].pc = "delete"
    /\ collection' = CollectionDelete(collection, call[c].transcript_id)
    /\ uploads' = {f \in uploads :
                     \A i \in 1..Len(collection) :
                        collection[i].id = call[c].transcript_id
                           => f.path # collection[i].metadata.video_path}
    /\ call' = [call EXCEPT ![c] =
                  [Ran(c, "delete", TRUE, "done") EXCEPT !.result = TRUE]]
    /\ provenance' = [i \in Ids |-> IF i \in StoredIds(collection') THEN provenance[i]
                                     ELSE NoRun]
    /\ UNCHANGED <<model_cache, loads, next_uuid, tmpdirs>>

\* collection.delete(ids=[transcript_id]); True
Delete(c) ==
    /\ call[c].pc = "delete"
    /\ collection' = CollectionDelete(collection, call[c].transcript_id)
    /\ call' = [call EXCEPT ![c] =
                  [Ran(c, "delete", TRUE, "done") EXCEPT !.result = TRUE]]
    /\ provenance' = [i \in Ids |-> IF i \in StoredIds(collection') THEN provenance[i]
                                     ELSE NoRun]
    /\ UNCHANGED <<uploads, model_cache, loads, next_uuid, tmpdirs>>

\* --------------------------------------------------------- get_transcript
Get(c, transcript_id) ==
    /\ Free(c)
    /\ call' = [call EXCEPT ![c] =
                  [IdleCall EXCEPT !.pc = "done", !.op = "get",
                                   !.transcript_id = transcript_id,
                                   !.steps = <<Step("get", TRUE)>>,
                                   !.pre = collection, !.pre_uploads = uploads,
                                   !.result = get_transcript(collection, transcript_id)]]
    /\ UNCHANGED <<collection, uploads, model_cache, loads, provenance, next_uuid, tmpdirs>>

\* -------------------------------------------------------- list_transcripts
List(c, limit, offset) ==
    /\ Free(c)
    /\ call' = [call EXCEPT ![c] =
                  [IdleCall EXCEPT !.pc = "done", !.op = "list",
                                   !.limit = limit, !.offset = offset,
                                   !.steps = <<Step("get", TRUE)>>,
                                   !.pre = collection, !.pre_uploads = uploads,
                                   !.result = list_transcripts(collection, limit, offset)]]
    /\ UNCHANGED <<collection, uploads, model_cache, loads, provenance, next_uuid, tmpdirs>>

\* ------------------------------------------------- store backend failures
\* get_transcript's except: collection.get raised, None is returned, which
\* update_transcript reports as not found
UpdateBeginGetFails(c, transcript_id, model_size) ==
    /\ Free(c)
    /\ call' = [call EXCEPT ![c] =
                  [IdleCall EXCEPT !.pc = "done", !.op = "update",
                                   !.transcript_id = transcript_id,
                                   !.model_size = model_size,
                                   !.steps = <<Step("get", FALSE)>>,
                                   !.pre = collection, !.pre_uploads = uploads,
                                   !.result = UpdateCheck(NoTranscript, model_size),
                                   !.response = update_transcript(
                                                   UpdateCheck(NoTranscript, model_size))]]
    /\ UNCHANGED <<collection, uploads, model_cache, loads, provenance, next_uuid, tmpdirs>>

\* get_transcript's except inside delete_transcript: False
DeleteBeginGetFails(c, transcript_id) ==
    /\ Free(c)
    /\ call' = [call EXCEPT ![c] =
                  [IdleCall EXCEPT !.pc = "done", !.op = "delete",
                                   !.transcript_id = transcript_id,
                                   !.steps = <<Step("get", FALSE)>>,
                                   !.pre = collection, !.pre_uploads = uploads,
                                   !.result = DeleteCheck(NoTranscript)]]
    /\ UNCHANGED <<collection, uploads, model_cache, loads, provenance, next_uuid, tmpdirs>>

\* delete_transcript's except: collection.delete raised, False
DeleteFails(c) ==
    /\ call[c].pc = "delete"
    /\ call' = [call EXCEPT ![c] =
                  [Ran(c, "delete", FALSE, "done") EXCEPT !.result = FALSE]]
    /\ UNCHANGED <<collection, uploads, model_cache, loads, provenance, next_uuid, tmpdirs>>

\* list_transcripts' except: collection.get raised, []
ListFails(c, limit, offset) ==
    /\ Free(c)
    /\ call' = [call EXCEPT ![c] =
                  [IdleCall EXCEPT !.pc = "done", !.op = "list",
                                   !.limit = limit, !.offset = offset,
                                   !.steps = <<Step("get", FALSE)>>,
                                   !.pre = collection, !.pre_uploads = uploads,
                                   !.result = <<>>]]
    /\ UNCHANGED <<collection, uploads, model_cache, loads, provenance, next_uuid, tmpdirs>>

\* get_transcript's except: collection.get raised, None
GetFails(c, transcript_id) ==
    /\ Free(c)
    /\ call' = [call EXCEPT ![c] =
                  [IdleCall EXCEPT !.pc = "done", !.op = "get",
                                   !.transcript_id = transcript_id,
                                   !.steps = <<Step("get", FALSE)>>,
                                   !.pre = collection, !.pre_uploads = uploads,
                                   !.result = NoTranscript]]
    /\ UNCHANGED <<collection, uploads, model_cache, loads, provenance, next_uuid, tmpdirs>>

\* ---------------------------------------------------------- specification
\* the ids a caller may pass: every id create can generate and one it cannot
RequestIds == Ids \cup {NonexistentId}

\* the steps of a create, update or delete call c, the cache hit aside
WriteSteps(c) ==
    \/ \E f \in Filenames, b \in Contents, m \in Sizes : CreateBegin(c, f, b, m)
    \/ SaveFile(c)
    \/ SaveFileFails(c)
    \/ GetModelMiss(c)
    \/ LoadModel(c)
    \/ ReturnModel(c)
    \/ LoadModelFails(c)
    \/ ExtractAudio(c)
    \/ ExtractAudioFails(c)
    \/ TranscribeAudio(c)
    \/ EmbedQuery(c)
    \/ EmbedQueryFails(c)
    \/ Upsert(c)
    \/ UpsertFails(c)
    \/ CreateReturn(c)
    \/ \E i \in RequestIds, m \in Sizes : UpdateBegin(c, i, m)
    \/ UpdateReturn(c)
    \/ \E i \in RequestIds : DeleteBegin(c, i)
    \/ Delete(c)

\* the steps of a create, update or delete call c
Writes(c) == WriteSteps(c) \/ GetModel(c)

\* the get and list calls
Reads(c) ==
    \/ \E i \in RequestIds : Get(c, i)
    \/ \E limit \in 0..MaxPage, offset \in 0..MaxPage : List(c, limit, offset)

\* the steps of call c
Run(c) == Writes(c) \/ Reads(c)

\* one caller, each call returning before the next one starts; the store
\* backend answers every get and delete (its upsert may raise)
Next == Run(1)

Spec == Init /\ [][Next]_vars

\* the same caller with a store backend whose get and delete may raise
BackendFails(c) ==
    \/ \E i \in RequestIds, m \in Sizes : UpdateBeginGetFails(c, i, m)
    \/ \E i \in RequestIds : DeleteBeginGetFails(c, i)
    \/ DeleteFails(c)
    \/ \E i \in RequestIds : GetFails(c, i)
    \/ \E limit \in 0..MaxPage, offset \in 0..MaxPage : ListFails(c, limit, offset)

NextBackendFails == Run(1) \/ BackendFails(1)

SpecBackendFails == Init /\ [][NextBackendFails]_vars

\* Depends(get_transcription_service): the router builds a TranscriptionService
\* for the request; __init__ opens the persisted collection and the uploads
\* directory and starts with an empty model cache
get_transcription_service(c) ==
    /\ call[c].pc \in {"idle", "done"}
    /\ model_cache' = [s \in Sizes |-> NoModel]
    /\ call' = [call EXCEPT ![c] = [IdleCall EXCEPT !.pc = "routed"]]
    /\ UNCHANGED <<collection, uploads, loads, provenance, next_uuid, tmpdirs>>

\* one process serving HTTP requests one after the other: every request gets
\* its service from the router, then runs one method of it. The method looks a
\* model up once, in the cache its service started with, which is empty: the
\* guard of GetModel is false in every state of these runs
NextHttp ==
    \/ get_transcription_service(1)
    \/ call[1].pc \notin {"idle", "done"} /\ (WriteSteps(1) \/ Reads(1))

SpecHttp == Init /\ [][NextHttp]_vars

\* the store after k creates of the same video with the "tiny" model succeeded
Created(k) ==
    [i \in 1..k |-> Record(i, <<1>>, embed_query(<<1>>), FilePath(i, "clip.mp4"), "tiny")]

\* the service after those k creates returned
InitConcurrent ==
    \E k \in 0..MaxIds :
        /\ collection = Created(k)
        /\ uploads = {File(FilePath(i, "clip.mp4"), "media") : i \in 1..k}
        /\ model_cache = [s \in Sizes |-> IF s = "tiny" /\ k > 0 THEN Model(s, 1)
                                          ELSE NoModel]
        /\ loads = [s \in Sizes |-> IF s = "tiny" /\ k > 0 THEN 1 ELSE 0]
        /\ provenance = [i \in Ids |-> IF i <= k THEN Run_(<<1>>, "tiny") ELSE NoRun]
        /\ next_uuid = k + 1
        /\ tmpdirs = {}
        /\ call = [c \in Calls |-> IdleCall]

\* two callers, each making one create, update or delete call; the steps of the
\* two calls interleave on one store, one uploads directory and one model cache
Concurrent == {1, 2}

NextConcurrent == \E c \in Concurrent : call[c].pc # "done" /\ Writes(c)

SpecConcurrent == InitConcurrent /\ [][NextConcurrent]_vars

TypeOK ==
    /\ next_uuid \in 1..(MaxIds + 1)
    /\ \A s \in Sizes : model_cache[s] \in {NoModel, Model(s, loads[s])}
    /\ \A i \in Ids : (provenance[i] # NoRun) <=> (i \in StoredIds(collection))
    /\ tmpdirs \subseteq Calls
    /\ \A i \in 1..Len(collection) : collection[i].id \in Ids

\* ================================================================ claims
Returned(c, op) == call[c].pc = "done" /\ call[c].op = op
StepOk(c, name) == \E i \in 1..Len(call[c].steps) : call[c].steps[i] = Step(name, TRUE)
StepFailed(c, name) == \E i \in 1..Len(call[c].steps) : call[c].steps[i] = Step(name, FALSE)
StepRan(c, name) == StepOk(c, name) \/ StepFailed(c, name)
PipelineSteps == {"get_model", "load_model", "extract", "transcribe", "embed", "upsert"}
SomeStepFailed(c) == \E n \in PipelineSteps : StepFailed(c, n)

\* the create call in which save, extraction, transcription (non-empty text),
\* embedding and store upsert all succeeded
CreateAllSucceeded(c) ==
    /\ Returned(c, "create")
    /\ StepOk(c, "save") /\ StepOk(c, "extract") /\ StepOk(c, "transcribe")
    /\ ~Falsy(call[c].transcript)
    /\ StepOk(c, "embed") /\ StepOk(c, "upsert")

\* C1: a create call in which file save, audio extraction, transcription with a
\* non-empty text, embedding and store upsert all succeed returns success=true
\* with a transcript, a transcript id and the requested model size, and the store
\* is then the store before the call plus exactly one record, keyed by the
\* returned id, whose document is the returned transcript, whose embedding is
\* the embedding of that transcript and whose metadata carry the returned video
\* path and model size.
C1_CreateSuccess ==
    \A c \in Calls : CreateAllSucceeded(c) =>
        LET r == call[c].result IN
        /\ r.success = TRUE
        /\ r.transcript # None
        /\ r.transcript_id # NoId
        /\ r.model_size = call[c].model_size
        /\ r.transcript_id \notin StoredIds(call[c].pre)
        /\ collection = Append(call[c].pre,
                               [id |-> r.transcript_id,
                                document |-> r.transcript,
                                embedding |-> embed_query(r.transcript),
                                metadata |-> [video_path |-> r.video_path,
                                              model_size |-> r.model_size]])

C1_Witness == \E c \in Calls : CreateAllSucceeded(c) /\ Len(call[c].pre) = 1

\* the create call that saved an upload which is not decodable media, or in
\* which audio extraction returned False
CreateUndecodable(c) ==
    /\ Returned(c, "create")
    /\ StepOk(c, "save")
    /\ call[c].file = "junk" \/ StepFailed(c, "extract")

\* C2: a create call whose uploaded bytes are not decodable media (audio
\* extraction returns false) returns success=false with transcript and
\* transcript id None, echoes the video path and the requested model size, adds
\* no record to the store, and the upload it saved no longer exists.
C2_CreateUndecodable ==
    \A c \in Calls : CreateUndecodable(c) =>
        LET r == call[c].result IN
        /\ r.success = FALSE
        /\ r.transcript = None
        /\ r.transcript_id = NoId
        /\ r.video_path = call[c].video_path
        /\ r.model_size = call[c].model_size
        /\ collection = call[c].pre
        /\ ~Exists(uploads, call[c].video_path)

C2_Witness ==
    \E c \in Calls :
        /\ CreateUndecodable(c)
        /\ call[c].file = "junk"
        /\ StepFailed(c, "extract")
        /\ Len(collection) = 1

\* C3: a create call that returns success=false, on whichever failure path
\* (save, extraction, transcription returning None or "", embedding, store),
\* leaves no record in the store under the id it generated.
C3_FailedCreateLeavesNoRecord ==
    \A c \in Calls : (Returned(c, "create") /\ call[c].result.success = FALSE) =>
        call[c].transcript_id \notin StoredIds(collection)

\* C4: when the embedding step or the store upsert fails during create, after
\* extraction and transcription succeeded, create returns success=false with
\* transcript and transcript id absent and deletes the upload it saved;
\* equivalently, whenever create returns success=true the store holds a record
\* under the returned transcript id.
C4_EmbedOrStoreFailureFailsCreate ==
    \A c \in Calls : Returned(c, "create") =>
        /\ (StepOk(c, "transcribe") /\ (StepFailed(c, "embed") \/ StepFailed(c, "upsert")))
              => /\ call[c].result.success = FALSE
                 /\ call[c].result.transcript = None
                 /\ call[c].result.transcript_id = NoId
                 /\ ~Exists(uploads, call[c].video_path)
        /\ call[c].result.success = TRUE
              => call[c].result.transcript_id \in StoredIds(collection)

\* the update call that found no record under its id
UpdateOfMissing(c) ==
    /\ Returned(c, "update")
    /\ call[c].transcript_id \notin StoredIds(call[c].pre)

\* C5: update(id, size) on an id with no record in the store returns
\* success=false with the message "Transcript not found", runs no pipeline step
\* (no model lookup or load, extraction, transcription, embedding or upsert) and
\* leaves the store unchanged.
C5_UpdateNotFound ==
    \A c \in Calls : UpdateOfMissing(c) =>
        /\ call[c].result = [success |-> FALSE, message |-> "Transcript not found"]
        /\ \A n \in PipelineSteps : ~StepRan(c, n)
        /\ collection = call[c].pre

C5_Witness == \E c \in Calls : UpdateOfMissing(c) /\ Len(call[c].pre) = 1

\* the update call whose size is the stored size of the record under its id
UpdateToSameSize(c) ==
    /\ Returned(c, "update")
    /\ call[c].transcript_id \in StoredIds(call[c].pre)
    /\ get_transcript(call[c].pre, call[c].transcript_id).metadata.model_size
          = call[c].model_size

\* C6: update(id, size) with size equal to the stored model size of the record
\* returns success=false with the no-op message, which is not the not-found
\* message, runs no pipeline step and leaves the store unchanged, in every
\* reachable state (so also when the call is repeated).
C6_UpdateSameSize ==
    \A c \in Calls : UpdateToSameSize(c) =>
        /\ call[c].result = [success |-> FALSE, message |-> "Model size is already the same"]
        /\ call[c].result.message # NotFoundMsg
        /\ \A n \in PipelineSteps : ~StepRan(c, n)
        /\ collection = call[c].pre

C6_Witness == \E c \in Calls : UpdateToSameSize(c) /\ Len(call[c].pre) = 2

\* the update call, on an existing record and with another size, in which every
\* pipeline step succeeded
UpdateAllSucceeded(c) ==
    /\ Returned(c, "update")
    /\ call[c].transcript_id \in StoredIds(call[c].pre)
    /\ get_transcript(call[c].pre, call[c].transcript_id).metadata.model_size
          # call[c].model_size
    /\ StepOk(c, "extract") /\ StepOk(c, "transcribe")
    /\ StepOk(c, "embed") /\ StepOk(c, "upsert")

\* C7: update(id, new_size) on an existing record, with new_size different from
\* the stored size and every pipeline step succeeding, returns success=true, and
\* the store is then the store before the call with the record under id replaced
\* in place by one with model_size = new_size, the same video path, the new
\* transcription as text and the embedding of that text; no other record is
\* added, removed or changed.
C7_UpdateSuccess ==
    \A c \in Calls : UpdateAllSucceeded(c) =>
        LET i == IndexOf(call[c].pre, call[c].transcript_id)
            old == call[c].pre[i]
        IN  /\ call[c].result.success = TRUE
            /\ call[c].result.new_model_size = call[c].model_size
            /\ collection =
                 [call[c].pre EXCEPT ![i] =
                     [id |-> call[c].transcript_id,
                      document |-> call[c].transcript,
                      embedding |-> embed_query(call[c].transcript),
                      metadata |-> [video_path |-> old.metadata.video_path,
                                    model_size |-> call[c].model_size]]]

C7_Witness ==
    \E c \in Calls :
        /\ UpdateAllSucceeded(c)
        /\ Len(call[c].pre) = 2
        /\ get_transcript(call[c].pre, call[c].transcript_id).transcript # call[c].transcript

\* C8: when a pipeline step fails during update (model load, extraction,
\* transcription returning None, embedding, or the store write), the store,
\* and so the record under the id, is as it was before the call, and
\* collection.upsert is not invoked in a run in which an earlier step failed.
C8_FailedUpdateKeepsRecord ==
    \A c \in Calls : (call[c].op = "update" /\ SomeStepFailed(c)) =>
        /\ collection = call[c].pre
        /\ StepRan(c, "upsert") =>
              \A n \in PipelineSteps \ {"upsert"} : ~StepFailed(c, n)

C8_Witness ==
    \E c \in Calls :
        /\ Returned(c, "update")
        /\ StepFailed(c, "transcribe")
        /\ StepFailed(c, "embed")

\* C9: when a pipeline step fails during update, the embedding step and the
\* store upsert included, update returns success=false; equivalently, whenever
\* update returns success=true the stored record's model size is the requested
\* one.
C9_FailedStepFailsUpdate ==
    \A c \in Calls : Returned(c, "update") =>
        /\ SomeStepFailed(c) => call[c].result.success = FALSE
        /\ call[c].result.success = TRUE =>
              /\ call[c].transcript_id \in StoredIds(collection)
              /\ get_transcript(collection, call[c].transcript_id).metadata.model_size
                    = call[c].model_size

\* C10: delete(id) on an existing record returns true, after which get(id)
\* returns None and every other record is unchanged; delete(id) on an id that
\* was deleted or never existed returns false and leaves the store unchanged.
C10_Delete ==
    \A c \in Calls : Returned(c, "delete") =>
        IF call[c].transcript_id \in StoredIds(call[c].pre)
        THEN /\ call[c].result = TRUE
             /\ get_transcript(collection, call[c].transcript_id) = NoTranscript
             /\ collection = SelectSeq(call[c].pre,
                                LAMBDA r : r.id # call[c].transcript_id)
             /\ Len(collection) = Len(call[c].pre) - 1
        ELSE /\ call[c].result = FALSE
             /\ collection = call[c].pre

C10_Witness ==
    \E c \in Calls :
        /\ Returned(c, "delete")
        /\ call[c].result = TRUE
        /\ Len(call[c].pre) = 2

\* the get part of C11: get(id) returns the stored id, text and metadata when
\* a record exists and None when none does, and leaves the store as it was
\* (so repeated calls return the same)
C11_GetReturnsStored ==
    \A c \in Calls : Returned(c, "get") =>
        /\ collection = call[c].pre
        /\ IF \E i \in 1..Len(collection) : collection[i].id = call[c].transcript_id
           THEN \E i \in 1..Len(collection) :
                   /\ collection[i].id = call[c].transcript_id
                   /\ call[c].result = [transcript_id |-> collection[i].id,
                                        transcript |-> collection[i].document,
                                        metadata |-> collection[i].metadata]
           ELSE call[c].result = NoTranscript

\* C11: get(id) returns the stored record (id, text, metadata) when one exists
\* and None when none exists, never changes the store, and returns the same on
\* every call while the store is not changed; after a create that returned
\* success=true, get(returned id) returns the text create returned.
C11_Get ==
    /\ C11_GetReturnsStored
    /\ \A c \in Calls : (Returned(c, "create") /\ call[c].result.success = TRUE) =>
          /\ call[c].result.transcript_id \in StoredIds(collection)
          /\ get_transcript(collection, call[c].result.transcript_id).transcript
                = call[c].result.transcript

Max(a, b) == IF a >= b THEN a ELSE b

RECURSIVE Pages(_, _)
\* list(1, k), list(1, k + 1), ..., list(1, N - 1) one after the other
Pages(coll, k) ==
    IF k >= Len(coll) THEN <<>>
    ELSE list_transcripts(coll, 1, k) \o Pages(coll, k + 1)

\* the ordering part of C13: the pages of one record, in order, are list(N, 0)
C13_PagesReassemble ==
    Pages(collection, 0) = list_transcripts(collection, Len(collection), 0)

\* C13: list ordering is stable and follows creation order: on an unchanged
\* store list(1, 0), ..., list(1, N - 1) put together are list(N, 0), and after
\* two creates that returned success=true list(limit=1, offset=1) returns
\* exactly the record of the second create.
C13_ListOrder ==
    /\ C13_PagesReassemble
    /\ \A c \in Calls :
          (/\ Returned(c, "create")
           /\ call[c].result.success = TRUE
           /\ Len(call[c].pre) = 1
           \* the record of a create that returned success=true: its text is
           \* not "" (a create that stored "" returned success=false)
           /\ call[c].pre[1].document # <<>>)
          => /\ Len(list_transcripts(collection, 1, 1)) = 1
             /\ list_transcripts(collection, 1, 1)[1].transcript_id
                   = call[c].result.transcript_id

\* C15: within one service instance and calls that do not overlap, the model
\* of a size is loaded at most once; a request for a size that is cached gets
\* the cached handle and loads nothing; no cache entry is removed or replaced.
C15_ModelLoadedOnce ==
    /\ [](\A s \in Sizes : loads[s] <= 1)
    /\ [][\A s \in Sizes :
             model_cache[s] # NoModel => model_cache'[s] = model_cache[s]]_vars
    /\ [][\A c \in Calls :
             (/\ call[c].pc = "get_model"
              /\ model_cache[call[c].model_size] # NoModel
              /\ call'[c] # call[c])
             => /\ call'[c].model = model_cache[call[c].model_size]
                /\ call'[c].pc = "extract"
                /\ loads' = loads]_vars

\* a second request for a size got the handle the first request loaded
C15_Witness ==
    \E c \in Calls :
        /\ call[c].op = "update"
        /\ StepOk(c, "get_model")
        /\ call[c].model = Model(call[c].model_size, 1)
        /\ \A s \in Sizes : loads[s] = 1

\* C16: an error the store backend raises during get, delete or list reaches
\* the caller as an outcome other than the normal negative result (None for
\* get, False for delete, [] for list).
C16_BackendFailureSurfaced ==
    \A c \in Calls :
        (call[c].pc = "done" /\ (StepFailed(c, "get") \/ StepFailed(c, "delete"))) =>
            /\ call[c].op = "get" => call[c].result # NoTranscript
            /\ call[c].op = "delete" => call[c].result # FALSE
            /\ call[c].op = "list" => call[c].result # <<>>

\* C17: after a create or update call returned, whatever its outcome, the
\* temporary directory created for the call, and the audio file in it, no longer
\* exist.
C17_TemporaryDirectoryRemoved ==
    \A c \in Calls :
        (call[c].op \in {"create", "update"} /\ call[c].pc \in {"ret", "done"}) =>
            c \notin tmpdirs

\* an update returned after extraction succeeded and the store write failed
C17_Witness ==
    \E c \in Calls :
        /\ Returned(c, "update")
        /\ StepOk(c, "extract")
        /\ StepFailed(c, "upsert")

\* the records of the store other than the one under the id, in order
RecordsOtherThan(coll, transcript_id) == SelectSeq(coll, LAMBDA r : r.id # transcript_id)

\* call c takes a step of delete(id): the lookup, or the store's delete
DeleteStep(c) ==
    /\ call'[c].op = "delete"
    /\ \/ call'[c].pc # call[c].pc
       \/ call'[c].op # call[c].op
       \/ call'[c].steps # call[c].steps
       \/ call'[c].transcript_id # call[c].transcript_id
       \/ call'[c].pre # call[c].pre

\* C18: delete(id) changes only the store entry for id: the video file the
\* record's video_path names, every other upload, every other record of the
\* store and the model cache are as before.
C18_DeleteFrame ==
    [][\A c \in Calls : DeleteStep(c) =>
          /\ uploads' = uploads
          /\ model_cache' = model_cache
          /\ RecordsOtherThan(collection', call'[c].transcript_id)
                = RecordsOtherThan(collection, call'[c].transcript_id)]_vars

\* a delete removed one of two records; its video file is still in the uploads
\* directory and a model is cached
C18_Witness ==
    \E c \in Calls :
        /\ Returned(c, "delete")
        /\ call[c].result = TRUE
        /\ Len(call[c].pre) = 2
        /\ Len(collection) = 1
        /\ Exists(uploads, call[c].pre[IndexOf(call[c].pre, call[c].transcript_id)]
                              .metadata.video_path)
        /\ \E s \in Sizes : model_cache[s] # NoModel

\* the place of a step in the pipeline; 0 for a step outside it
Stage(name) ==
    CASE name \in {"get_model", "load_model"} -> 1
      [] name = "extract" -> 2
      [] name = "transcribe" -> 3
      [] name = "embed" -> 4
      [] name = "upsert" -> 5
      [] OTHER -> 0

\* the pipeline steps call c has run, in the order it ran them
PipelineTrace(c) == SelectSeq(call[c].steps, LAMBDA st : st.step \in PipelineSteps)

\* C19: within one create or update call the pipeline steps run one after the
\* other in the order model lookup, audio extraction, transcription, embedding,
\* store upsert; transcription starts only after extraction returned success,
\* and the store upsert only after the embedding was computed.
C19_StepOrder ==
    \A c \in Calls :
        LET t == PipelineTrace(c) IN
        /\ \A i \in 1..Len(t) : Stage(t[i].step) = i
        /\ \A i \in 1..Len(t) :
              /\ t[i].step = "transcribe" => t[i - 1] = Step("extract", TRUE)
              /\ t[i].step = "upsert" => t[i - 1] = Step("embed", TRUE)
        /\ call[c].pc = "transcribe" => t[Len(t)] = Step("extract", TRUE)
        /\ call[c].pc = "upsert" => t[Len(t)] = Step("embed", TRUE)

\* a call ran the five steps
C19_Witness ==
    \E c \in Calls :
        /\ Returned(c, "update")
        /\ Len(PipelineTrace(c)) = 5
        /\ StepOk(c, "upsert")

\* C20: a failing pipeline step aborts the remaining ones: in a create or
\* update run where extraction fails, transcription, embedding and store upsert
\* are not invoked, and in a run where transcription returns None, neither the
\* embedding adapter nor the store upsert is invoked.
C20_FailureAborts ==
    \A c \in Calls :
        /\ StepFailed(c, "extract") =>
              /\ ~StepRan(c, "transcribe")
              /\ ~StepRan(c, "embed")
              /\ ~StepRan(c, "upsert")
        /\ StepFailed(c, "transcribe") =>
              /\ ~StepRan(c, "embed")
              /\ ~StepRan(c, "upsert")

\* the extraction part of C20 alone
C20_ExtractionFailureAborts ==
    \A c \in Calls :
        StepFailed(c, "extract") =>
            /\ ~StepRan(c, "transcribe")
            /\ ~StepRan(c, "embed")
            /\ ~StepRan(c, "upsert")

\* C14: in every reachable state, under every interleaving of concurrent
\* create, update and delete calls, every record of the store has the embedding
\* of its current text and the model size of the model which produced that text:
\* text, embedding and model size of a record come from one pipeline run.
C14_RecordFromOneRun ==
    \A i \in 1..Len(collection) :
        LET r == collection[i] IN
        /\ r.embedding = embed_query(r.document)
        /\ provenance[r.id] = Run_(r.document, r.metadata.model_size)
        /\ \A j \in 1..Len(collection) : collection[j].id = r.id => j = i

\* two updates of one record overlapped (both looked the record up before
\* either wrote), both wrote, with different texts: the last writer's record
\* is the stored one
C14_Witness ==
    /\ Returned(1, "update") /\ Returned(2, "update")
    /\ call[1].transcript_id = call[2].transcript_id
    /\ call[1].pre = call[2].pre
    /\ StepOk(1, "upsert") /\ StepOk(2, "upsert")
    /\ call[1].transcript # call[2].transcript
    /\ call[1].transcript_id \in StoredIds(collection)
    /\ get_transcript(collection, call[1].transcript_id).transcript
          # get_transcript(call[1].pre, call[1].transcript_id).transcript

\* C21: when persisting the uploaded file fails during create (open or copy
\* raises), create returns success=false with transcript and transcript id None,
\* runs no pipeline step, leaves the store unchanged and leaves no partial upload
\* at the target path in the uploads directory.
C21_SaveFailure ==
    \A c \in Calls : (Returned(c, "create") /\ StepFailed(c, "save")) =>
        /\ call[c].result.success = FALSE
        /\ call[c].result.transcript = None
        /\ call[c].result.transcript_id = NoId
        /\ \A n \in PipelineSteps : ~StepRan(c, n)
        /\ collection = call[c].pre
        /\ ~Exists(uploads, call[c].video_path)

\* the part of C21 that does not concern the upload file
C21_SaveFailureResult ==
    \A c \in Calls : (Returned(c, "create") /\ StepFailed(c, "save")) =>
        /\ call[c].result.success = FALSE
        /\ call[c].result.transcript = None
        /\ call[c].result.transcript_id = NoId
        /\ \A n \in PipelineSteps : ~StepRan(c, n)
        /\ collection = call[c].pre

\* the messages a failure result of update may carry
GenericMessages ==
    {"Transcript not found", "Model size is already the same",
     "Failed to update transcript due to transcription error"}

\* create or update call c returned a failure result
FailedReturn(c) ==
    /\ call[c].pc = "done"
    /\ call[c].op \in {"create", "update"}
    /\ call[c].result.success = FALSE

\* a result without the path of the upload, which differs from create to create
WithoutPath(result) ==
    IF "video_path" \in DOMAIN result THEN [result EXCEPT !.video_path = <<>>] ELSE result

C23_UpdateStatus ==
    \A c \in Calls : Returned(c, "update") =>
        LET r == call[c].result
            h == call[c].response
        IN  /\ r.success => h = [raised |-> FALSE, status_code |-> 200, body |-> r]
            /\ (~r.success /\ r.message = "Transcript not found") =>
                  h = [raised |-> TRUE, status_code |-> 404,
                       detail |-> "Transcript not found"]
            /\ (~r.success /\ r.message = "Model size is already the same") =>
                  h = [raised |-> FALSE, status_code |-> 200,
                       body |-> [success |-> FALSE,
                                 message |-> "Model size is already the same"]]
            /\ (~r.success /\ r.message \notin {"Transcript not found",
                                                "Model size is already the same"}) =>
                  h = [raised |-> TRUE, status_code |-> 500,
                       detail |-> "Failed to update transcript"]
            /\ call[c].transcript_id \notin StoredIds(call[c].pre) => h.status_code = 404
            /\ (/\ call[c].transcript_id \in StoredIds(call[c].pre)
                /\ call[c].pre[IndexOf(call[c].pre, call[c].transcript_id)]
                      .metadata.model_size = call[c].model_size)
                  => h.status_code = 200

\* an update of an id that is not among the two stored ones was answered 404
C23_Witness ==
    \E c \in Calls :
        /\ Returned(c, "update")
        /\ call[c].response.status_code = 404
        /\ Len(call[c].pre) = 2

\* an update whose transcription failed was answered 500
C23_Witness500 ==
    \E c \in Calls :
        /\ Returned(c, "update")
        /\ StepFailed(c, "transcribe")
        /\ call[c].response.status_code = 500

\* C24: the model cache keeps a loaded handle for the lifetime of the process:
\* of two HTTP requests the process serves one after the other with the same
\* model size, the first loads the model and the second does not load it again.
C24_LoadedOncePerProcess ==
    \A c \in Calls :
        StepOk(c, "load_model") => loads[call[c].model_size] = 1

\* call c has its model: __get_model returned
HasModel(c) ==
    /\ StepOk(c, "get_model") \/ StepOk(c, "load_model")
    /\ call[c].pc # "return_model"

\* C25: when two create or update calls on one service instance concurrently
\* make the first request for a model size, both may load it (the loads are not
\* deduplicated; C25_Witness is that interleaving); in every interleaving each
\* caller gets a handle of a model of its size that some load produced, and the
\* cache holds one handle for the size, again one that some load produced.
C25_LoadRace ==
    \A c \in Calls : HasModel(c) =>
        LET size == call[c].model_size IN
        /\ call[c].model.size = size
        /\ call[c].model.load \in 1..loads[size]
        /\ model_cache[size].size = size
        /\ model_cache[size].load \in 1..loads[size]

\* both callers loaded the same size, each got the handle of its own load, and
\* the cache holds the handle of the second load
C25_Witness ==
    /\ StepOk(1, "load_model") /\ StepOk(2, "load_model")
    /\ HasModel(1) /\ HasModel(2)
    /\ call[1].model_size = call[2].model_size
    /\ call[1].model # call[2].model
    /\ loads[call[1].model_size] = 2
    /\ model_cache[call[1].model_size].load = 2

\* C26: once delete(id) returned true the store never again holds a record
\* under id, whatever update(id, size) calls were in flight when it ran: an
\* update that had read the record does not put it back through its upsert.
C26_DeletedStaysDeleted ==
    \A d \in Calls :
        (Returned(d, "delete") /\ call[d].result = TRUE) =>
            call[d].transcript_id \notin StoredIds(collection)

\* C27: in every state reachable through create, update and delete calls, any
\* step failing and the transcription possibly "", every record of the store
\* has a video_path naming a file that exists in the uploads directory.
C27_RecordHasVideo ==
    \A i \in 1..Len(collection) : Exists(uploads, collection[i].metadata.video_path)

====
